---- MODULE Spec2Model ----
(***************************************************************************)
(* Model of insight-scout's crawl path: the web-crawler edge function      *)
(* (supabase/functions/web-crawler/index.ts), its browser-side caller      *)
(* runCrawl (src/lib/crawler.ts) and the page handlers handleStart and     *)
(* handleStop (src/pages/CrawlerPage.tsx).                                 *)
(*                                                                         *)
(* Strings are modelled by their structure.  A URL string is a record      *)
(* [scheme, host, path, query]: host is the sequence of its characters,    *)
(* path the sequence of its "/"-prefixed segments (<<>> is the string      *)
(* without any path, <<"">> is "/", <<"b">> is "/b"), query is "" or the   *)
(* text from "?" on.  Two URL strings are equal iff their records are.     *)
(* A log line is a record [p, m]: p its leading characters, m what it      *)
(* reports; "[v]" stands for the check-mark prefix (U+2713 in brackets).   *)
(*                                                                         *)
(* The second half models the port-scanner edge function                   *)
(* (supabase/functions/port-scanner/index.ts): its pure functions          *)
(* isPublicIP, expandIPRange and computeRiskScore, and its handler with    *)
(* the per-address fan-out of geolocate and scanPort (SpecScan).           *)
(***************************************************************************)
EXTENDS Integers, Sequences, FiniteSets, TLC

VARIABLES
    pc,             \* handler position: idle, recv, robots, loop, fetch, done
    req,            \* the request body {url, depth, maxPages}
    baseOrigin,     \* new URL(target).origin
    maxDepth,       \* depth || 3
    limit,          \* maxPages || 20
    visited,        \* Set<string> of dequeued-and-fetched URLs
    queue,          \* the frontier: {url, currentDepth}[]
    item,           \* the item of the running loop iteration
    internalLinks,
    externalLinks,
    subdomains,
    crawledPages,
    steps,          \* the handler's step log
    status,         \* HTTP status of the handler's response (0: none yet)
    stoppedEarly,   \* stopped_early of the response body
    cpc,            \* runCrawl: idle, waiting, resolved, rejected
    aborted,        \* abortSignal.aborted
    logs,           \* entries passed to onLog
    result,         \* the CrawlResult runCrawl resolved with
    spc,            \* port-scanner handler: idle, recv, loop, wait, done
    sreq,           \* the port-scanner request body {ip_range, ports}
    net,            \* how the remote hosts and ip-api.com behave
    ips,            \* expandIPRange(ip_range)
    validIPs,       \* ips.filter(isPublicIP)
    scanPorts,      \* the ports to probe
    idx,            \* position of the per-IP loop in validIPs
    tasks,          \* the pending scanPort promises of the current IP
    geo,            \* the pending geolocate promise of the current IP
    scanSteps,      \* the port scanner's step log
    results,        \* the findings
    scanStatus,     \* HTTP status of the scanner's response (0: none yet)
    probed,         \* <<ip, port>> of every Deno.connect issued
    looked,         \* ip of every ip-api.com request issued
    scored,         \* the calls of computeRiskScore: [port, banner, score]
    inserted        \* the row lists handed to scanned_hosts insert

backend == <<pc, req, baseOrigin, maxDepth, limit, visited, queue, item,
             internalLinks, externalLinks, subdomains, crawledPages, steps,
             status, stoppedEarly>>
client == <<cpc, aborted, logs, result>>
scan == <<spc, sreq, net, ips, validIPs, scanPorts, idx, tasks, geo,
          scanSteps, results, scanStatus, probed, looked, scored, inserted>>
vars == <<pc, req, baseOrigin, maxDepth, limit, visited, queue, item,
          internalLinks, externalLinks, subdomains, crawledPages, steps,
          status, stoppedEarly, cpc, aborted, logs, result>>

----------------------------------------------------------------------------
(* Bounds of the model *)

\* largest depth a caller sends (0 .. MaxDepthIn)
MaxDepthIn == 2
\* largest maxPages a caller sends (0 .. MaxPagesIn)
MaxPagesIn == 2
\* most links of a generated page
MaxLinks == 1

(* Program constants *)

DefaultDepth == 3
DefaultLimit == 20

----------------------------------------------------------------------------
(* URL strings *)

Url(s, h, p, q) == [scheme |-> s, host |-> h, path |-> p, query |-> q]

BaseHost == <<"a", ".", "c", "o">>
SubHost == <<"x", ".", "a", ".", "c", "o">>
TailHost == <<"b", "a", ".", "c", "o">>
OtherHost == <<"e", ".", "i", "o">>

NoUrl == Url("", <<>>, <<>>, "")

Range(s) == {s[i] : i \in 1..Len(s)}

\* url.startsWith("http")
StartsWithHttp(u) == u.scheme \in {"http", "https"}

\* url.startsWith("http") ? url : `https://${url}`
Target(u) == IF StartsWithHttp(u) THEN u ELSE [u EXCEPT !.scheme = "https"]

\* new URL(s) throws on a string without a host or with a space in it
Parsable(u) == u.host # <<>> /\ " " \notin Range(u.host)

\* URL.origin: scheme and host of an http(s) URL, "null" otherwise
Origin(u) ==
    IF StartsWithHttp(u) THEN [scheme |-> u.scheme, host |-> u.host]
    ELSE [scheme |-> "null", host |-> <<>>]

\* URL.pathname: a URL without a path has the path "/"
Pathname(u) == IF u.path = <<>> THEN <<"">> ELSE u.path

\* resolved.origin + resolved.pathname
CleanUrl(u) == Url(u.scheme, u.host, Pathname(u), "")

\* hostname.replace(/^www\./, "")
StripWww(h) ==
    IF Len(h) >= 4 /\ SubSeq(h, 1, 4) = <<"w", "w", "w", ".">>
    THEN SubSeq(h, 5, Len(h)) ELSE h

\* String.prototype.endsWith
EndsWith(s, t) ==
    Len(t) <= Len(s) /\ SubSeq(s, Len(s) - Len(t) + 1, Len(s)) = t

----------------------------------------------------------------------------
(* What the network can answer *)

\* URLs that links of a fetched page resolve to: new URL(match[1], item.url)
Root == Url("https", BaseHost, <<"">>, "")
PageB == Url("https", BaseHost, <<"b">>, "")
PageBq == Url("https", BaseHost, <<"b">>, "?k=v")
PageC == Url("https", BaseHost, <<"api", "c">>, "")
SubLink == Url("https", SubHost, <<"">>, "")
TailLink == Url("https", TailHost, <<"d">>, "")
OtherLink == Url("http", OtherHost, <<"">>, "?k=v")
PlainLink == Url("http", BaseHost, <<"">>, "")
MailLink == Url("mailto", <<>>, <<>>, "")

\* a page body: its links in document order, its <form> tags, the type
\* attributes of its <input> tags ("" when absent), its HTML comments that
\* hold a sensitive keyword
Body(l, f, i, c) == [links |-> l, forms |-> f, inputs |-> i, comments |-> c]

NoBody == Body(<<>>, 0, <<>>, 0)

\* a fetch outcome: the fetch rejects ("neterr"), resolves but the body read
\* rejects ("bodyerr"), or resolves with a status, the media types named in
\* the content-type header, and a body
Resp(k, st, ct, b) == [kind |-> k, status |-> st, ctype |-> ct, body |-> b]

\* the link lists of plain pages: every list of at most MaxLinks links to
\* the pages below the root
SiteLinks == {PageB, PageC}

LinkLists ==
    UNION {[1..n -> SiteLinks] : n \in 0..MaxLinks}

\* plain pages, and pages picked for what they hold: markup the analysis
\* reacts to, a 404 page linking home, two links to two pages, two links to
\* one page, links that leave the site
HtmlResponses ==
    { Resp("ok", 200, {"text/html"}, Body(l, 0, <<>>, 0)) : l \in LinkLists }
    \cup
    { Resp("ok", 200, {"text/html"}, Body(<<>>, 1, <<"password", "file">>, 1)),
      Resp("ok", 404, {"text/html"}, Body(<<Root>>, 0, <<"">>, 0)),
      Resp("ok", 200, {"text/html"}, Body(<<PageB, PageC>>, 0, <<>>, 0)),
      Resp("ok", 200, {"text/html"}, Body(<<PageB, PageBq>>, 0, <<>>, 0)),
      Resp("ok", 200, {"text/html"},
           Body(<<SubLink, TailLink, OtherLink, PlainLink, MailLink>>, 0, <<>>, 0)) }

NonHtmlResponses ==
    { Resp("ok", 200, {"application/json"}, NoBody),
      Resp("ok", 200, {}, NoBody) }

FailedResponses ==
    { Resp("neterr", 0, {}, NoBody),
      Resp("bodyerr", 200, {"text/html"}, NoBody) }

\* outcomes of the robots.txt request: ok, not ok, rejected
RobotsOutcomes == {"ok", "notok", "error"}

----------------------------------------------------------------------------
(* What callers send *)

UrlInputs ==
    { Url("", BaseHost, <<>>, ""),
      Url("https", BaseHost, <<"">>, ""),
      Url("https", BaseHost, <<"b">>, "?k=v"),
      Url("https", <<" ">>, <<>>, ""),
      NoUrl }

DepthInputs == 0..MaxDepthIn
PagesInputs == 0..MaxPagesIn

\* !url.trim()
IsBlank(u) == u.scheme = "" /\ Range(u.host) \subseteq {" "}
              /\ u.path = <<>> /\ u.query = ""

----------------------------------------------------------------------------
(* Log lines *)

Line(p, m) == [p |-> p, m |-> m]

\* one onLog entry
Entry(t, m) == [type |-> t, message |-> m]

\* the port scanner before any request
NoScanRequest == [json |-> TRUE, ip_range |-> [type |-> "undefined"],
                  ports |-> [array |-> FALSE]]
NoNet == [ports |-> <<>>, geo |-> "ok"]
NoGeo == [state |-> "idle"]
ScanIdle ==
    /\ spc = "idle"
    /\ sreq = NoScanRequest
    /\ net = NoNet
    /\ ips = <<>>
    /\ validIPs = <<>>
    /\ scanPorts = <<>>
    /\ idx = 0
    /\ tasks = <<>>
    /\ geo = NoGeo
    /\ scanSteps = <<>>
    /\ results = <<>>
    /\ scanStatus = 0
    /\ probed = {}
    /\ looked = {}
    /\ scored = {}
    /\ inserted = <<>>

NoItem == [url |-> NoUrl, currentDepth |-> 0]

NoResult ==
    [main_domain |-> NoUrl, pages_crawled |-> 0, internal_links |-> {},
     external_links |-> {}, subdomains |-> {}, crawled_pages |-> <<>>,
     stopped_early |-> FALSE]

Init ==
    /\ pc = "idle"
    /\ req = [url |-> NoUrl, depth |-> 0, maxPages |-> 0]
    /\ baseOrigin = Origin(NoUrl)
    /\ maxDepth = 0
    /\ limit = 0
    /\ visited = {}
    /\ queue = <<>>
    /\ item = NoItem
    /\ internalLinks = {}
    /\ externalLinks = {}
    /\ subdomains = {}
    /\ crawledPages = <<>>
    /\ steps = <<>>
    /\ status = 0
    /\ stoppedEarly = FALSE
    /\ cpc = "idle"
    /\ aborted = FALSE
    /\ logs = <<>>
    /\ result = NoResult
    /\ ScanIdle

----------------------------------------------------------------------------
(* The handler of supabase/functions/web-crawler/index.ts *)

Opt(c, x) == IF c THEN <<x>> ELSE <<>>

Count(s, S) == Cardinality({i \in 1..Len(s) : s[i] \in S})

\* any caller of the HTTP endpoint posts a body
DirectRequest(u, d, m) ==
    /\ pc = "idle" /\ cpc = "idle"
    /\ req' = [url |-> u, depth |-> d, maxPages |-> m]
    /\ pc' = "recv"
    /\ UNCHANGED <<baseOrigin, maxDepth, limit, visited, queue, item,
                   internalLinks, externalLinks, subdomains, crawledPages,
                   steps, status, stoppedEarly>>
    /\ UNCHANGED client
    /\ UNCHANGED scan

\* if (!url) return 400
ServeNoUrl ==
    /\ pc = "recv"
    /\ req.url = NoUrl
    /\ status' = 400
    /\ pc' = "done"
    /\ UNCHANGED <<req, baseOrigin, maxDepth, limit, visited, queue, item,
                   internalLinks, externalLinks, subdomains, crawledPages,
                   steps, stoppedEarly>>
    /\ UNCHANGED client
    /\ UNCHANGED scan

\* new URL(target) throws: the outer catch answers 500
ServeBadUrl ==
    /\ pc = "recv"
    /\ req.url # NoUrl
    /\ ~Parsable(Target(req.url))
    /\ status' = 500
    /\ pc' = "done"
    /\ UNCHANGED <<req, baseOrigin, maxDepth, limit, visited, queue, item,
                   internalLinks, externalLinks, subdomains, crawledPages,
                   steps, stoppedEarly>>
    /\ UNCHANGED client
    /\ UNCHANGED scan

\* depth || 3
MaxDepthOf(d) == IF d # 0 THEN d ELSE DefaultDepth

\* maxPages || 20
LimitOf(m) == IF m # 0 THEN m ELSE DefaultLimit

\* the setup, up to the robots.txt request
ServeStart ==
    /\ pc = "recv"
    /\ req.url # NoUrl
    /\ Parsable(Target(req.url))
    /\ baseOrigin' = Origin(Target(req.url))
    /\ visited' = {}
    /\ queue' = <<[url |-> Target(req.url), currentDepth |-> 0]>>
    /\ internalLinks' = {}
    /\ externalLinks' = {}
    /\ subdomains' = {}
    /\ crawledPages' = <<>>
    /\ maxDepth' = MaxDepthOf(req.depth)
    /\ limit' = LimitOf(req.maxPages)
    /\ steps' = << Line("[*]", "Initializing BFS crawler"),
                   Line("[*]", "Config"),
                   Line("[+]", "Fetching robots.txt") >>
    /\ pc' = "robots"
    /\ UNCHANGED <<req, item, status, stoppedEarly>>
    /\ UNCHANGED client
    /\ UNCHANGED scan

RobotsLine(o) ==
    CASE o = "ok" -> Line("[v]", "robots.txt found")
      [] o = "notok" -> Line("[v]", "No robots.txt found")
      [] OTHER -> Line("[+]", "Could not fetch robots.txt")

\* the robots.txt request settles
RobotsDone(o) ==
    /\ pc = "robots"
    /\ steps' = steps \o <<RobotsLine(o), Line("[+]", "Starting BFS traversal")>>
    /\ pc' = "loop"
    /\ UNCHANGED <<req, baseOrigin, maxDepth, limit, visited, queue, item,
                   internalLinks, externalLinks, subdomains, crawledPages,
                   status, stoppedEarly>>
    /\ UNCHANGED client
    /\ UNCHANGED scan

\* the loop guard with <= for <: one page too many
LoopGuardLe == queue # <<>> /\ Cardinality(visited) <= limit

\* while (queue.length > 0 && visited.size < limit)
LoopGuard == queue # <<>> /\ Cardinality(visited) < limit

\* the skip test without visited.has
SkippedByDepthOnly(it) == it.currentDepth > maxDepth

\* if (visited.has(item.url) || item.currentDepth > maxDepth) continue
Skipped(it) == it.url \in visited \/ it.currentDepth > maxDepth

LoopSkip ==
    /\ pc = "loop"
    /\ LoopGuard
    /\ Skipped(Head(queue))
    /\ item' = Head(queue)
    /\ queue' = Tail(queue)
    /\ UNCHANGED <<pc, req, baseOrigin, maxDepth, limit, visited,
                   internalLinks, externalLinks, subdomains, crawledPages,
                   steps, status, stoppedEarly>>
    /\ UNCHANGED client
    /\ UNCHANGED scan

\* the item is marked visited and its page requested
LoopVisit ==
    /\ pc = "loop"
    /\ LoopGuard
    /\ ~Skipped(Head(queue))
    /\ item' = Head(queue)
    /\ queue' = Tail(queue)
    /\ visited' = visited \cup {Head(queue).url}
    /\ steps' = Append(steps, Line("[+]", "Visiting"))
    /\ pc' = "fetch"
    /\ UNCHANGED <<req, baseOrigin, maxDepth, limit, internalLinks,
                   externalLinks, subdomains, crawledPages, status,
                   stoppedEarly>>
    /\ UNCHANGED client
    /\ UNCHANGED scan

\* queue.length > 0 && visited.size >= limit
StoppedEarly == queue # <<>> /\ Cardinality(visited) >= limit

\* the loop is left: the summary, and the 200 response
LoopExit ==
    /\ pc = "loop"
    /\ ~LoopGuard
    /\ stoppedEarly' = StoppedEarly
    /\ steps' = steps \o Opt(StoppedEarly, Line("[!]", "Page limit reached"))
                      \o << Line("\n[*]", "=== Crawl Complete ==="),
                            Line("[+]", "Pages crawled"),
                            Line("[+]", "Internal links"),
                            Line("[+]", "External links"),
                            Line("[+]", "Subdomains"),
                            Line("[v]", "Crawler shutdown") >>
    /\ status' = 200
    /\ pc' = "done"
    /\ UNCHANGED <<req, baseOrigin, maxDepth, limit, visited, queue, item,
                   internalLinks, externalLinks, subdomains, crawledPages>>
    /\ UNCHANGED client
    /\ UNCHANGED scan

----------------------------------------------------------------------------
(* One fetched page: link extraction and attack-surface analysis *)

\* URL.href: the whole URL, with its path and query
Href(u) == [u EXCEPT !.path = Pathname(u)]

\* queue.unshift for queue.push: the frontier becomes a stack
EnqueueFront(q, it) == <<it>> \o q

\* queue.push
Enqueue(q, it) == Append(q, it)

\* a link loop that treats every http(s) link as internal
ExtractAnyOrigin(acc, l) ==
    IF StartsWithHttp(l)
    THEN [acc EXCEPT
            !.internal = @ \cup {CleanUrl(l)},
            !.n = @ + 1,
            !.queue = IF CleanUrl(l) \notin visited
                         /\ item.currentDepth + 1 <= maxDepth
                      THEN Enqueue(@, [url |-> CleanUrl(l),
                                       currentDepth |-> item.currentDepth + 1])
                      ELSE @]
    ELSE acc

\* the body of the link loop for one resolved link l, on the accumulated
\* sets, frontier, pageLinks count and log lines
Extract(acc, l) ==
    IF Origin(l) = baseOrigin
    THEN [acc EXCEPT
            !.internal = @ \cup {CleanUrl(l)},
            !.n = @ + 1,
            !.queue = IF CleanUrl(l) \notin visited
                         /\ item.currentDepth + 1 <= maxDepth
                      THEN Enqueue(@, [url |-> CleanUrl(l),
                                       currentDepth |-> item.currentDepth + 1])
                      ELSE @]
    ELSE IF StartsWithHttp(l)
    THEN IF EndsWith(l.host, StripWww(baseOrigin.host))
            /\ l.host # baseOrigin.host
         THEN [acc EXCEPT
                 !.external = @ \cup {Href(l)},
                 !.subs = @ \cup {Origin(l)},
                 !.lines = Append(@, Line("[+]", "Subdomain discovered"))]
         ELSE [acc EXCEPT !.external = @ \cup {Href(l)}]
    ELSE acc

RECURSIVE ExtractAll(_, _)
ExtractAll(links, acc) ==
    IF links = <<>> THEN acc
    ELSE ExtractAll(Tail(links), Extract(acc, Head(links)))

TextTypes == {"text", "search", "email", "password", "url", "tel", ""}
AuthWords == {"login", "signin", "auth", "password"}

\* /\?[^"']+=[^"']+/.test(url): every query of the model is a key=value pair
HasParams(u) == u.query # ""

\* /login|signin|auth|password/i.test(url), on whole path segments
UrlNamesAuth(u) == \E i \in 1..Len(u.path) : u.path[i] \in AuthWords

\* /\/api\//i.test(url): a segment "api" with a "/" after it
UrlNamesApi(u) == \E i \in 1..(Len(u.path) - 1) : u.path[i] = "api"

IsAuthPage(u, b) == UrlNamesAuth(u) \/ Count(b.inputs, {"password"}) > 0
IsApi(u, ct) == UrlNamesApi(u) \/ "application/json" \in ct

Finding(f, n) == [f |-> f, n |-> n]

\* attackSurface of the page at u with content type ct and body b
Findings(u, ct, b) ==
    Opt(b.forms > 0, Finding("form(s)", b.forms))
    \o Opt(Count(b.inputs, TextTypes) > 0,
           Finding("text input(s)", Count(b.inputs, TextTypes)))
    \o Opt(Count(b.inputs, {"file"}) > 0, Finding("File upload detected", 1))
    \o Opt(HasParams(u), Finding("URL has query parameters", 1))
    \o Opt(IsAuthPage(u, b), Finding("Authentication page", 1))
    \o Opt(IsApi(u, ct), Finding("API endpoint", 1))
    \o Opt(b.comments > 0, Finding("HTML comment(s)", b.comments))

\* the log lines of the analysis
FindingLines(u, ct, b) ==
    Opt(b.forms > 0, Line("[+]", "form(s) found"))
    \o Opt(Count(b.inputs, {"file"}) > 0, Line("[!]", "File upload found"))
    \o Opt(IsAuthPage(u, b), Line("[+]", "Authentication page detected"))
    \o Opt(IsApi(u, ct), Line("[+]", "API endpoint detected"))
    \o Opt(b.comments > 0, Line("[!]", "Sensitive HTML comments found"))

\* the request of item.url resolves with an HTML page
FetchHtml(r) ==
    /\ pc = "fetch"
    /\ r.kind = "ok"
    /\ "text/html" \in r.ctype
    /\ LET acc == ExtractAll(r.body.links,
                     [internal |-> internalLinks, external |-> externalLinks,
                      subs |-> subdomains, queue |-> queue, n |-> 0,
                      lines |-> <<>>])
       IN /\ internalLinks' = acc.internal
          /\ externalLinks' = acc.external
          /\ subdomains' = acc.subs
          /\ queue' = acc.queue
          /\ crawledPages' = Append(crawledPages,
                 [url |-> item.url, status |-> r.status,
                  links_found |-> acc.n,
                  attack_surface |-> Findings(item.url, r.ctype, r.body)])
          /\ steps' = steps \o acc.lines
                 \o FindingLines(item.url, r.ctype, r.body)
                 \o <<Line("[v]", "Extracted")>>
                 \o Opt(item.currentDepth > 0 /\ Cardinality(visited) % 5 = 0,
                        Line("[*]", "Progress"))
    /\ pc' = "loop"
    /\ UNCHANGED <<req, baseOrigin, maxDepth, limit, visited, item, status,
                   stoppedEarly>>
    /\ UNCHANGED client
    /\ UNCHANGED scan

\* the request resolves with something that is not HTML
FetchNonHtml(r) ==
    /\ pc = "fetch"
    /\ r.kind = "ok"
    /\ "text/html" \notin r.ctype
    /\ steps' = Append(steps, Line("[+]", "Skipping non-HTML content"))
    /\ pc' = "loop"
    /\ UNCHANGED <<req, baseOrigin, maxDepth, limit, visited, queue, item,
                   internalLinks, externalLinks, subdomains, crawledPages,
                   status, stoppedEarly>>
    /\ UNCHANGED client
    /\ UNCHANGED scan

\* the loop body without its try/catch: the rejection reaches the outer
\* catch of the handler, which answers 500
FetchFailsAborts(r) ==
    /\ pc = "fetch"
    /\ r.kind # "ok"
    /\ status' = 500
    /\ pc' = "done"
    /\ UNCHANGED <<req, baseOrigin, maxDepth, limit, visited, queue, item,
                   internalLinks, externalLinks, subdomains, crawledPages,
                   steps, stoppedEarly>>
    /\ UNCHANGED client
    /\ UNCHANGED scan

\* fetch or resp.text() rejects: the catch of the loop body
FetchFails(r) ==
    /\ pc = "fetch"
    /\ r.kind # "ok"
    /\ steps' = Append(steps, Line("[!]", "Error fetching"))
    /\ pc' = "loop"
    /\ UNCHANGED <<req, baseOrigin, maxDepth, limit, visited, queue, item,
                   internalLinks, externalLinks, subdomains, crawledPages,
                   status, stoppedEarly>>
    /\ UNCHANGED client
    /\ UNCHANGED scan

----------------------------------------------------------------------------
(* runCrawl (src/lib/crawler.ts) under handleStart and handleStop *)

\* the options of the depth <select>
UiDepths == 1..5

\* handleStart, and runCrawl up to its await of the backend
HandleStart(u, d, m) ==
    /\ cpc = "idle" /\ pc = "idle"
    /\ ~IsBlank(u)
    /\ d \in UiDepths
    /\ cpc' = "waiting"
    /\ aborted' = FALSE
    /\ result' = NoResult
    /\ logs' = << Entry("system", "Initializing real BFS crawler"),
                  Entry("system", "Config"),
                  Entry("info", "Sending to backend crawler engine") >>
    /\ req' = [url |-> Target(u), depth |-> d, maxPages |-> m]
    /\ pc' = "recv"
    /\ UNCHANGED <<baseOrigin, maxDepth, limit, visited, queue, item,
                   internalLinks, externalLinks, subdomains, crawledPages,
                   steps, status, stoppedEarly>>
    /\ UNCHANGED scan

\* the result of the abort branch
AbortResult(target) ==
    [main_domain |-> target, pages_crawled |-> 0, internal_links |-> {},
     external_links |-> {}, subdomains |-> {}, crawled_pages |-> <<>>,
     stopped_early |-> TRUE]

\* the catch without its abort branch: every rejection is rethrown
CaughtRethrows(ab, target) ==
    [cpc |-> "rejected",
     entries |-> <<Entry("error", "Crawl error"), Entry("error", "Crawl failed")>>,
     result |-> NoResult]

\* the catch of runCrawl, with handleStart's catch behind it: what runCrawl
\* settles with and what is logged, given abortSignal.aborted
Caught(ab, target) ==
    IF ab
    THEN [cpc |-> "resolved",
          entries |-> <<Entry("warning", "Crawl aborted by user")>>,
          result |-> AbortResult(target)]
    ELSE [cpc |-> "rejected",
          entries |-> <<Entry("error", "Crawl error"),
                        Entry("error", "Crawl failed")>>,
          result |-> NoResult]

\* handleStop while the crawl runs: the signal aborts, the pending request
\* rejects and runCrawl's catch runs
HandleStop ==
    /\ cpc = "waiting"
    /\ aborted' = TRUE
    /\ LET c == Caught(TRUE, req.url)
       IN /\ cpc' = c.cpc
          /\ logs' = logs \o c.entries
          /\ result' = c.result
    /\ UNCHANGED backend
    /\ UNCHANGED scan

\* the type of a replayed step
StepType(l) ==
    CASE l.p = "[!]" -> "warning"
      [] l.p = "[v]" -> "success"
      [] l.p = "[*]" -> "system"
      [] OTHER -> "info"

\* the replay loop: for (step of data.steps) { if (aborted) break; onLog }
Replay(ss, ab) ==
    IF ab THEN <<>>
    ELSE [i \in 1..Len(ss) |-> Entry(StepType(ss[i]), ss[i])]

\* response.ok
IsOk(st) == st >= 200 /\ st <= 299

\* the backend answered 2xx: replay, completion entry, result
ClientOk ==
    /\ cpc = "waiting"
    /\ pc = "done"
    /\ IsOk(status)
    /\ logs' = logs \o Replay(steps, aborted)
                    \o <<Entry("success", "Crawl completed")>>
    /\ result' = [main_domain |-> baseOrigin,
                  pages_crawled |-> Len(crawledPages),
                  internal_links |-> internalLinks,
                  external_links |-> externalLinks,
                  subdomains |-> subdomains,
                  crawled_pages |-> crawledPages,
                  stopped_early |-> stoppedEarly]
    /\ cpc' = "resolved"
    /\ UNCHANGED aborted
    /\ UNCHANGED backend
    /\ UNCHANGED scan

\* the backend answered an error: throw, catch, rethrow
ClientError ==
    /\ cpc = "waiting"
    /\ pc = "done"
    /\ ~IsOk(status)
    /\ LET c == Caught(aborted, req.url)
       IN /\ cpc' = c.cpc
          /\ logs' = logs \o c.entries
          /\ result' = c.result
    /\ UNCHANGED aborted
    /\ UNCHANGED backend
    /\ UNCHANGED scan

----------------------------------------------------------------------------

Responses == HtmlResponses \cup NonHtmlResponses \cup FailedResponses

Next ==
    \/ \E u \in UrlInputs, d \in DepthInputs, m \in PagesInputs :
          DirectRequest(u, d, m)
    \/ \E u \in UrlInputs, d \in DepthInputs, m \in PagesInputs :
          HandleStart(u, d, m)
    \/ ServeNoUrl
    \/ ServeBadUrl
    \/ ServeStart
    \/ \E o \in RobotsOutcomes : RobotsDone(o)
    \/ LoopSkip
    \/ LoopVisit
    \/ LoopExit
    \/ \E r \in Responses : FetchHtml(r)
    \/ \E r \in Responses : FetchNonHtml(r)
    \/ \E r \in Responses : FetchFails(r)
    \/ HandleStop
    \/ ClientOk
    \/ ClientError

Spec == Init /\ [][Next]_vars

----------------------------------------------------------------------------
(* Claims *)

LinesOf(m) == {i \in 1..Len(steps) : steps[i].m = m}

\* the request names a URL the handler can parse
ValidRequest == req.url # NoUrl /\ Parsable(Target(req.url))

\* C1: with a page cap maxPages >= 1 the visited set, and with it the list
\* of CrawledPage records, never holds more than maxPages entries
C1_PageCap ==
    req.maxPages >= 1 =>
        /\ Cardinality(visited) <= req.maxPages
        /\ Len(crawledPages) <= req.maxPages

\* a crawl with maxPages = 2 that produced two pages and left a frontier
C1_Witness ==
    /\ pc = "done" /\ req.maxPages = 2
    /\ Len(crawledPages) = 2 /\ queue # <<>> /\ stoppedEarly

\* C2: for every caller-supplied depth d >= 0, d = 0 included, no URL whose
\* discovery depth is greater than d is fetched
C2_DepthBound == pc = "fetch" => item.currentDepth <= req.depth

\* C3: the loop dequeues the head of the frontier, and the depths of
\* successive dequeued (hence fetched) items never decrease
C3_BreadthFirst ==
    [][item' # item =>
          /\ item' = Head(queue) /\ queue' = Tail(queue)
          /\ item'.currentDepth >= item.currentDepth]_vars

\* a depth-2 page is fetched after the start page and two depth-1 pages
C3_Witness ==
    pc = "fetch" /\ item.currentDepth = 2 /\ Cardinality(visited) = 4

\* C4: no two fetches of one crawl target URLs with the same normalized form
C4_NoRefetch ==
    \A u, v \in visited : CleanUrl(u) = CleanUrl(v) => u = v

\* C5: stopped_early is true exactly when the cap was reached while the
\* frontier still held a URL that was not visited
C5_StoppedEarlyExact ==
    (pc = "done" /\ status = 200) =>
        (stoppedEarly <=>
            /\ Cardinality(visited) >= limit
            /\ \E i \in 1..Len(queue) : queue[i].url \notin visited)

\* C6: a failed page fetch is logged and the crawl goes on: every visited URL
\* is under way or accounted for by a page, a skip line or an error line,
\* the step after a failure is a loop step that keeps the pages and the
\* frontier, and a crawl of a valid request answers 200
C6_FetchFailureContained ==
    /\ [](Cardinality(visited) =
            Len(crawledPages) + Cardinality(LinesOf("Skipping non-HTML content"))
            + Cardinality(LinesOf("Error fetching"))
            + (IF pc = "fetch" THEN 1 ELSE 0))
    /\ [](pc = "done" /\ ValidRequest => status = 200)
    /\ [][Cardinality(LinesOf("Error fetching"))' > Cardinality(LinesOf("Error fetching"))
            => pc' = "loop" /\ crawledPages' = crawledPages /\ queue' = queue]_vars

\* a finished crawl with a page crawled, then a failed fetch, then another
\* page visited
C6_Witness ==
    /\ pc = "done" /\ status = 200
    /\ \E i, j, k \in 1..Len(steps) :
          /\ i < j /\ j < k
          /\ steps[i].m = "Extracted"
          /\ steps[j].m = "Error fetching"
          /\ steps[k].m = "Extracted"

\* the items of a CrawlResult: pages, links and subdomains
ItemCount(r) ==
    Len(r.crawled_pages) + Cardinality(r.internal_links)
    + Cardinality(r.external_links) + Cardinality(r.subdomains)

\* what the handler has accumulated
Accumulated ==
    Len(crawledPages) + Cardinality(internalLinks)
    + Cardinality(externalLinks) + Cardinality(subdomains)

\* the log holds the entry of the abort branch
LoggedAbort ==
    \E i \in 1..Len(logs) :
        logs[i] = Entry("warning", "Crawl aborted by user")

\* C7 as stated: after an abort raised while runCrawl waits, runCrawl has
\* resolved, the user's stop is logged, and the result holds fewer items
\* than the full crawl, which the handler runs to its end
C7_AbortFewerThanFull ==
    aborted =>
        /\ cpc = "resolved"
        /\ LoggedAbort
        /\ (pc = "done" /\ IsOk(status) => ItemCount(result) < Accumulated)

\* C7 as amended: after an abort raised while runCrawl waits, runCrawl has
\* resolved, never rejected, the user's stop is logged, and the result holds
\* no item at all, hence never more than the full crawl
C7_AbortResolvesEmpty ==
    aborted =>
        /\ cpc = "resolved"
        /\ LoggedAbort
        /\ result.pages_crawled = 0
        /\ ItemCount(result) = 0
        /\ (pc = "done" /\ IsOk(status) => ItemCount(result) <= Accumulated)

\* an aborted crawl whose handler went on to crawl two pages
C7_Witness ==
    /\ aborted /\ cpc = "resolved"
    /\ pc = "done" /\ Len(crawledPages) = 2

\* C8: the abort step hands the caller what the crawl has accumulated so far
C8_PartialReturned ==
    [][~aborted /\ aborted' =>
          /\ result'.crawled_pages = crawledPages
          /\ result'.internal_links = internalLinks
          /\ result'.subdomains = subdomains]_vars

\* C9: the result of a cancelled crawl has stopped_early = true only if the
\* page cap was reached with a non-empty frontier
C9_CancelDistinct ==
    [][~aborted /\ aborted' => (result'.stopped_early => StoppedEarly)]_vars

\* C10: once cancellation is signalled the crawl engine starts no page fetch
C10_NoFetchAfterCancel ==
    [][aborted => ~(pc = "loop" /\ pc' = "fetch")]_vars

----------------------------------------------------------------------------
(* The port scanner: supabase/functions/port-scanner/index.ts              *)
(*                                                                         *)
(* A string handed to the scanner as ip_range is modelled by its           *)
(* structure: the sequence of its "-"-separated parts, each part the       *)
(* sequence of its "."-separated pieces, each piece the sequence of its    *)
(* characters.  "8.8.8.1-3" is <<"8","8","8","1">> - <<"3">>, "8..8.8" has *)
(* the piece <<>> in second place, the empty string is one part of one     *)
(* empty piece.  The alphabet is the ten digits and the letter "a"; white  *)
(* space, signs, exponents and radix prefixes are outside it, so trim()    *)
(* returns its argument.  An address string is one part.                   *)
(* A banner is the sequence of its tokens [w, n]: the text w of n          *)
(* characters, tokens following each other without separator.              *)

Digits == <<"0", "1", "2", "3", "4", "5", "6", "7", "8", "9">>
IsDigit(c) == \E i \in 1..Len(Digits) : Digits[i] = c
DigitValue(c) == (CHOOSE i \in 1..Len(Digits) : Digits[i] = c) - 1

\* a JavaScript number: NaN, or the integer v
NaN == [nan |-> TRUE, v |-> 0]
Num(n) == [nan |-> FALSE, v |-> n]

RECURSIVE Decimal(_)
Decimal(t) ==
    IF t = <<>> THEN 0
    ELSE 10 * Decimal(SubSeq(t, 1, Len(t) - 1)) + DigitValue(t[Len(t)])

\* Number(piece): the empty string is 0, a digit string its value, any
\* other string of the alphabet NaN
Number(t) ==
    IF t = <<>> THEN Num(0)
    ELSE IF \A i \in 1..Len(t) : IsDigit(t[i]) THEN Num(Decimal(t))
    ELSE NaN

\* `${n}` of a non-negative integer
RECURSIVE Text(_)
Text(n) ==
    IF n < 10 THEN <<Digits[n + 1]>>
    ELSE Text(n \div 10) \o <<Digits[(n % 10) + 1]>>

\* piece.split(".").map(Number)
Numbers(part) == [i \in 1..Len(part) |-> Number(part[i])]

\* isPublicIP(ip)
isPublicIP(ip) ==
    LET parts == Numbers(ip)
    IN IF \/ Len(parts) # 4
          \/ \E i \in 1..Len(parts) :
                parts[i].nan \/ parts[i].v < 0 \/ parts[i].v > 255
       THEN FALSE
       ELSE IF parts[1].v = 10 THEN FALSE
       ELSE IF parts[1].v = 172 /\ parts[2].v >= 16 /\ parts[2].v <= 31
       THEN FALSE
       ELSE IF parts[1].v = 192 /\ parts[2].v = 168 THEN FALSE
       ELSE IF parts[1].v = 127 THEN FALSE
       ELSE IF parts[1].v = 0 \/ parts[1].v >= 224 THEN FALSE
       ELSE TRUE

\* A 32-bit word is the sequence of its four bytes, most significant first.
\* ToInt32 of a number: NaN and undefined are 0
Bytes(x) ==
    IF x.nan THEN <<0, 0, 0, 0>>
    ELSE << (x.v \div 16777216) % 256, (x.v \div 65536) % 256,
            (x.v \div 256) % 256, x.v % 256 >>

\* w << 8k
ShiftLeft(w, k) == SubSeq(w, k + 1, 4) \o [i \in 1..k |-> 0]

RECURSIVE BitOr(_, _, _)
BitOr(a, b, bits) ==
    IF bits = 0 THEN 0
    ELSE (IF a % 2 = 1 \/ b % 2 = 1 THEN 1 ELSE 0)
         + 2 * BitOr(a \div 2, b \div 2, bits - 1)

\* u | w
Or32(u, w) == [i \in 1..4 |-> BitOr(u[i], w[i], 8)]

\* parts[i] of an array: undefined past its end, which ToInt32 treats as NaN
At(parts, i) == IF i <= Len(parts) THEN parts[i] ELSE NaN

\* (p[0] << 24) | (p[1] << 16) | (p[2] << 8) | p[3]
Pack(parts) ==
    Or32(Or32(Or32(ShiftLeft(Bytes(At(parts, 1)), 3),
                   ShiftLeft(Bytes(At(parts, 2)), 2)),
              ShiftLeft(Bytes(At(parts, 3)), 1)),
         Bytes(At(parts, 4)))

\* the signed value of a word, kept as <<top, b2, b1, b0>> with top in
\* -128..127; the loop counter is a JavaScript number and may step past
\* the largest int32, which is top = 128
Signed(w) == <<IF w[1] >= 128 THEN w[1] - 256 ELSE w[1], w[2], w[3], w[4]>>

\* i <= end
Leq(i, e) ==
    \/ i[1] < e[1]
    \/ i[1] = e[1] /\ i[2] < e[2]
    \/ i[1] = e[1] /\ i[2] = e[2] /\ i[3] < e[3]
    \/ i[1] = e[1] /\ i[2] = e[2] /\ i[3] = e[3] /\ i[4] <= e[4]

\* i++
Inc(i) ==
    IF i[4] < 255 THEN <<i[1], i[2], i[3], i[4] + 1>>
    ELSE IF i[3] < 255 THEN <<i[1], i[2], i[3] + 1, 0>>
    ELSE IF i[2] < 255 THEN <<i[1], i[2] + 1, 0, 0>>
    ELSE <<i[1] + 1, 0, 0, 0>>

\* `${(i >>> 24) & 255}.${(i >>> 16) & 255}.${(i >>> 8) & 255}.${i & 255}`
Dotted(i) == <<Text(i[1] % 256), Text(i[2]), Text(i[3]), Text(i[4])>>

maxIPs == 16

\* the loop of expandIPRange without its cap
RECURSIVE LoopUncapped(_, _, _)
LoopUncapped(i, e, acc) ==
    IF Leq(i, e)
    THEN LoopUncapped(Inc(i), e, Append(acc, Dotted(i)))
    ELSE acc

\* for (let i = start; i <= end && ips.length < maxIPs; i++) ips.push(...)
RECURSIVE Loop(_, _, _)
Loop(i, e, acc) ==
    IF Leq(i, e) /\ Len(acc) < maxIPs
    THEN Loop(Inc(i), e, Append(acc, Dotted(i)))
    ELSE acc

\* endParts = [...startParts]; endParts[3] = x
SetLast(parts, x) ==
    [i \in 1..(IF Len(parts) > 4 THEN Len(parts) ELSE 4) |->
        IF i = 4 THEN x ELSE At(parts, i)]

\* expandIPRange(input)
expandIPRange(input) ==
    IF Len(input) >= 2
    THEN LET startParts == Numbers(input[1])
             endPart == input[2]
             endParts == IF Len(endPart) >= 2
                         THEN Numbers(endPart)
                         ELSE SetLast(startParts, Number(endPart[1]))
         IN Loop(Signed(Pack(startParts)), Signed(Pack(endParts)), <<>>)
    ELSE <<input[1]>>

PORT_SERVICES ==
    (21 :> "FTP") @@ (22 :> "SSH") @@ (25 :> "SMTP") @@ (80 :> "HTTP")
    @@ (110 :> "POP3") @@ (143 :> "IMAP") @@ (443 :> "HTTPS")
    @@ (993 :> "IMAPS") @@ (995 :> "POP3S") @@ (3306 :> "MySQL")
    @@ (3389 :> "RDP") @@ (5432 :> "PostgreSQL") @@ (6379 :> "Redis")
    @@ (8080 :> "HTTP-Proxy") @@ (8443 :> "HTTPS-Alt")
    @@ (27017 :> "MongoDB")

SENSITIVE_PORTS == {21, 22, 23, 25, 3306, 5432, 6379, 27017, 3389, 445, 1433}
DEFAULT_BANNERS ==
    {"default", "admin", "root", "test", "welcome", "unauthorized"}

\* a banner token
Tok(w, n) == [w |-> w, n |-> n]

\* toLowerCase of the token texts the model uses
LowerOf(w) ==
    CASE w = "ADMIN" -> "admin"
      [] w = "Default" -> "default"
      [] w = "Server:" -> "server:"
      [] w = "Version" -> "version"
      [] w = "Welcome" -> "welcome"
      [] OTHER -> w

toLowerCase(b) == [i \in 1..Len(b) |-> Tok(LowerOf(b[i].w), b[i].n)]

\* b.includes(d), for a d that is one token
includes(b, d) == \E i \in 1..Len(b) : b[i].w = d

\* b.slice(0, k): a token cut by the end keeps a fragment of its text
RECURSIVE slice(_, _)
slice(b, k) ==
    IF b = <<>> \/ k <= 0 THEN <<>>
    ELSE IF b[1].n <= k THEN <<b[1]>> \o slice(Tail(b), k - b[1].n)
    ELSE <<Tok("...", k)>>

\* computeRiskScore with 35 for a database port
computeRiskScore35(port, banner) ==
    LET lowerBanner == toLowerCase(banner)
        s1 == IF port \in SENSITIVE_PORTS THEN 40 ELSE 0
        s2 == s1 + (IF \E d \in DEFAULT_BANNERS : includes(lowerBanner, d)
                    THEN 20 ELSE 0)
        s3 == s2 + (IF port \in {3306, 5432, 27017, 6379} THEN 35 ELSE 0)
        s4 == s3 + (IF \/ includes(lowerBanner, "version")
                       \/ includes(lowerBanner, "server:")
                    THEN 15 ELSE 0)
    IN IF s4 < 100 THEN s4 ELSE 100

\* computeRiskScore(port, banner)
computeRiskScore(port, banner) ==
    LET lowerBanner == toLowerCase(banner)
        s1 == IF port \in SENSITIVE_PORTS THEN 40 ELSE 0
        s2 == s1 + (IF \E d \in DEFAULT_BANNERS : includes(lowerBanner, d)
                    THEN 20 ELSE 0)
        s3 == s2 + (IF port \in {3306, 5432, 27017, 6379} THEN 25 ELSE 0)
        s4 == s3 + (IF \/ includes(lowerBanner, "version")
                       \/ includes(lowerBanner, "server:")
                    THEN 15 ELSE 0)
    IN IF s4 < 100 THEN s4 ELSE 100

----------------------------------------------------------------------------
(* The remote hosts, ip-api.com and the request bodies of the port scanner *)

BannerNginx == <<Tok("Server:", 7), Tok("nginx", 5)>>
BannerMysql == <<Tok("5.7.1", 5), Tok("ADMIN", 5), Tok("Version", 7)>>
BannerSsh == <<Tok("SSH-2.0-OpenSSH", 15), Tok("padding", 483), Tok("root", 4)>>

\* what a remote port does: refuse the connection, never answer it, accept
\* and stay silent, accept and fail the read, accept and send a banner
Refused == [k |-> "refused", b |-> <<>>]
Hangs == [k |-> "hang", b |-> <<>>]
Silent == [k |-> "silent", b |-> <<>>]
ReadFails == [k |-> "readfails", b |-> <<>>]
Sends(b) == [k |-> "banner", b |-> b]

PortsClosed == <<>>
PortsHttps == (443 :> Silent)
PortsBanners == (22 :> Sends(BannerSsh)) @@ (80 :> Sends(BannerNginx))
                @@ (443 :> Silent) @@ (3306 :> Sends(BannerMysql))
                @@ (9999 :> ReadFails)
PortsHang == (80 :> Hangs) @@ (443 :> Silent) @@ (3306 :> Silent)

\* ip-api.com answers with a record, the request fails or times out, or
\* it answers without success
GeoOutcomes == {"ok", "error", "denied"}

Nets ==
    [ports : {PortsClosed, PortsHttps, PortsBanners, PortsHang},
     geo : GeoOutcomes]

\* how a remote port behaves
Behaviour(port) ==
    IF port \in DOMAIN net.ports THEN net.ports[port] ELSE Refused

\* the record geolocate builds from a successful answer
GeoRecord ==
    [country |-> "US", city |-> "", organization |-> "Example",
     asn |-> "AS64500", latitude |-> 37, longitude |-> -122]
GeoNull == [state |-> "done", ok |-> FALSE]
GeoFound == [state |-> "done", ok |-> TRUE]
GeoPending == [state |-> "pending"]

IP(a, b, c, d) == <<Text(a), Text(b), Text(c), Text(d)>>
Str(parts) == [type |-> "string", s |-> parts]
NotAString == [type |-> "number"]
Missing == [type |-> "undefined"]

\* one address
SingleInputs ==
    { <<IP(8, 8, 8, 8)>>, <<IP(1, 1, 1, 1)>>, <<IP(10, 0, 0, 1)>>,
      <<IP(172, 20, 1, 1)>>, <<IP(172, 15, 0, 1)>>, <<IP(172, 32, 0, 1)>>,
      <<IP(192, 168, 1, 1)>>, <<IP(192, 167, 1, 1)>>, <<IP(127, 0, 0, 1)>>,
      <<IP(0, 1, 1, 1)>>, <<IP(223, 1, 1, 1)>>, <<IP(224, 0, 0, 1)>>,
      <<IP(256, 1, 1, 1)>>, <<IP(8, 8, 8, 255)>>,
      << <<Text(8), <<>>, Text(8), Text(8)>> >>,
      << <<Text(8), <<"a">>, Text(8), Text(8)>> >>,
      << <<Text(8), Text(8), Text(8)>> >>,
      << <<Text(8), Text(8), Text(8), Text(8), Text(8)>> >>,
      << << <<>> >> >> }

\* a range
RangeInputs ==
    { <<IP(8, 8, 8, 1), <<Text(3)>> >>,
      <<IP(8, 8, 8, 250), IP(8, 8, 9, 20)>>,
      <<IP(9, 255, 255, 254), IP(10, 0, 0, 1)>>,
      <<IP(10, 0, 0, 1), IP(10, 0, 0, 2)>>,
      << <<Text(8), <<"a">>, Text(8), Text(8)>>, <<Text(9)>> >>,
      <<IP(8, 8, 8, 8), << <<"a">> >> >>,
      <<IP(127, 255, 255, 255), IP(128, 0, 0, 1)>>,
      <<IP(200, 0, 0, 1), IP(200, 0, 0, 2)>>,
      <<IP(8, 8, 8, 5), IP(8, 8, 8, 3)>>,
      << <<Text(8), Text(8), Text(8)>>, <<Text(5)>> >>,
      <<IP(1, 2, 300, 4), IP(1, 2, 300, 5)>>,
      <<IP(8, 8, 8, 8), << <<>> >> >> }

DefaultPorts == <<21, 22, 80, 443, 3306, 8080>>
List(l) == [array |-> TRUE, list |-> l]
NotAList == [array |-> FALSE, given |-> TRUE]
NoList == [array |-> FALSE, given |-> FALSE]

ScanBody(r, ps) == [json |-> TRUE, ip_range |-> r, ports |-> ps]
BadJson == [json |-> FALSE, ip_range |-> Missing, ports |-> NoList]

ScanRequests ==
    {ScanBody(Str(s), List(l)) :
        s \in SingleInputs \cup RangeInputs, l \in {<<443>>, <<53, 80, 443>>}}
    \cup {ScanBody(Str(s), ps) :
            s \in { <<IP(8, 8, 8, 8)>>, <<IP(8, 8, 8, 1), <<Text(3)>> >>,
                    << <<Text(8), <<>>, Text(8), Text(8)>> >> },
            ps \in {List(<<22, 3306, 9999>>), List(<<443, 443>>), List(<<>>),
                    NotAList, NoList}}
    \cup {ScanBody(r, List(<<443>>)) : r \in {NotAString, Missing}}
    \cup {BadJson}

ScanLine(p, m, ip, port) == [p |-> p, m |-> m, ip |-> ip, port |-> port]
Note(p, m) == ScanLine(p, m, <<>>, 0)

----------------------------------------------------------------------------
(* The handler of supabase/functions/port-scanner/index.ts *)

\* a caller posts a body; the hosts it names behave as net says
ScanRequest(r, w) ==
    /\ spc = "idle"
    /\ sreq' = r
    /\ net' = w
    /\ spc' = "recv"
    /\ UNCHANGED <<ips, validIPs, scanPorts, idx, tasks, geo, scanSteps,
                   results, scanStatus, probed, looked, scored, inserted>>
    /\ UNCHANGED <<backend, client>>

\* req.json() throws: the outer catch answers 500
ServeBadBody ==
    /\ spc = "recv"
    /\ ~sreq.json
    /\ scanStatus' = 500
    /\ spc' = "done"
    /\ UNCHANGED <<sreq, net, ips, validIPs, scanPorts, idx, tasks, geo,
                   scanSteps, results, probed, looked, scored, inserted>>
    /\ UNCHANGED <<backend, client>>

\* !ip_range || typeof ip_range !== "string"
NoRange(r) == IF r.type # "string" THEN TRUE ELSE r.s = << << <<>> >> >>

ServeNoRange ==
    /\ spc = "recv"
    /\ sreq.json
    /\ NoRange(sreq.ip_range)
    /\ scanStatus' = 400
    /\ spc' = "done"
    /\ UNCHANGED <<sreq, net, ips, validIPs, scanPorts, idx, tasks, geo,
                   scanSteps, results, probed, looked, scored, inserted>>
    /\ UNCHANGED <<backend, client>>

\* a filter that keeps a batch only when all of it is public
AllOrNothing(l) ==
    IF \A i \in 1..Len(l) : isPublicIP(l[i]) THEN l ELSE <<>>

\* ips.filter(isPublicIP)
Filter(l) == SelectSeq(l, isPublicIP)

\* no address of the range is public
ServeNoPublic ==
    /\ spc = "recv"
    /\ sreq.json
    /\ ~NoRange(sreq.ip_range)
    /\ ips' = expandIPRange(sreq.ip_range.s)
    /\ validIPs' = Filter(ips')
    /\ validIPs' = <<>>
    /\ scanStatus' = 400
    /\ spc' = "done"
    /\ UNCHANGED <<sreq, net, scanPorts, idx, tasks, geo, scanSteps,
                   results, probed, looked, scored, inserted>>
    /\ UNCHANGED <<backend, client>>

\* ports && Array.isArray(ports) ? ports : [21, 22, 80, 443, 3306, 8080]
PortsOf(ps) == IF ps.array THEN ps.list ELSE DefaultPorts

\* the scan starts
ServeScan ==
    /\ spc = "recv"
    /\ sreq.json
    /\ ~NoRange(sreq.ip_range)
    /\ ips' = expandIPRange(sreq.ip_range.s)
    /\ validIPs' = Filter(ips')
    /\ validIPs' # <<>>
    /\ scanPorts' = PortsOf(sreq.ports)
    /\ scanSteps' = << Note("[*]", "Scan session initialized"),
                       Note("[*]", "Target IPs"),
                       Note("[*]", "Ports") >>
    /\ idx' = 1
    /\ spc' = "loop"
    /\ UNCHANGED <<sreq, net, tasks, geo, results, scanStatus, probed,
                   looked, scored, inserted>>
    /\ UNCHANGED <<backend, client>>

Connecting(port) == [port |-> port, phase |-> "connect", open |-> FALSE,
                     banner |-> <<>>]

\* the top of an iteration: geolocate(ip) and scanPort(ip, port) for every
\* port are called, each up to its first await
ScanIP ==
    /\ spc = "loop"
    /\ idx <= Len(validIPs)
    /\ LET ip == validIPs[idx]
       IN /\ scanSteps' = Append(scanSteps, ScanLine("[+]", "Scanning", ip, 0))
          /\ looked' = looked \cup {ip}
          /\ probed' = probed \cup
                          {<<ip, scanPorts[k]>> : k \in 1..Len(scanPorts)}
    /\ geo' = GeoPending
    /\ tasks' = [k \in 1..Len(scanPorts) |-> Connecting(scanPorts[k])]
    /\ spc' = "wait"
    /\ UNCHANGED <<sreq, net, ips, validIPs, scanPorts, idx, results,
                   scanStatus, scored, inserted>>
    /\ UNCHANGED <<backend, client>>

\* Deno.connect settles: it rejects, and scanPort resolves closed, or it
\* resolves and scanPort goes on to the banner read
ConnectSettles(k) ==
    /\ spc = "wait"
    /\ k \in 1..Len(tasks)
    /\ tasks[k].phase = "connect"
    /\ Behaviour(tasks[k].port).k # "hang"
    /\ tasks' = [tasks EXCEPT ![k] =
                    IF Behaviour(tasks[k].port).k = "refused"
                    THEN [@ EXCEPT !.phase = "done"]
                    ELSE [@ EXCEPT !.phase = "read", !.open = TRUE]]
    /\ UNCHANGED <<spc, sreq, net, ips, validIPs, scanPorts, idx, geo,
                   scanSteps, results, scanStatus, probed, looked, scored,
                   inserted>>
    /\ UNCHANGED <<backend, client>>

\* conn.read settles before the 3000 ms timer: with a banner, or rejecting
ReadSettles(k) ==
    /\ spc = "wait"
    /\ k \in 1..Len(tasks)
    /\ tasks[k].phase = "read"
    /\ Behaviour(tasks[k].port).k \in {"banner", "readfails"}
    /\ tasks' = [tasks EXCEPT ![k] =
                    [@ EXCEPT !.phase = "done",
                              !.banner = Behaviour(tasks[k].port).b]]
    /\ UNCHANGED <<spc, sreq, net, ips, validIPs, scanPorts, idx, geo,
                   scanSteps, results, scanStatus, probed, looked, scored,
                   inserted>>
    /\ UNCHANGED <<backend, client>>

\* the 3000 ms timer wins the race: the port is open, the banner empty
ReadTimeout(k) ==
    /\ spc = "wait"
    /\ k \in 1..Len(tasks)
    /\ tasks[k].phase = "read"
    /\ Behaviour(tasks[k].port).k = "silent"
    /\ tasks' = [tasks EXCEPT ![k] = [@ EXCEPT !.phase = "done"]]
    /\ UNCHANGED <<spc, sreq, net, ips, validIPs, scanPorts, idx, geo,
                   scanSteps, results, scanStatus, probed, looked, scored,
                   inserted>>
    /\ UNCHANGED <<backend, client>>

\* geolocate resolves: the record, or null for a failed fetch, a timeout
\* after 5000 ms, a non-ok response or a status other than "success"
GeoResult(outcome) ==
    IF outcome = "ok" THEN GeoFound ELSE GeoNull

GeoSettles ==
    /\ spc = "wait"
    /\ geo.state = "pending"
    /\ geo' = GeoResult(net.geo)
    /\ UNCHANGED <<spc, sreq, net, ips, validIPs, scanPorts, idx, tasks,
                   scanSteps, results, scanStatus, probed, looked, scored,
                   inserted>>
    /\ UNCHANGED <<backend, client>>

\* PORT_SERVICES[port]?.name || "Unknown"
serviceName(port) ==
    IF port \in DOMAIN PORT_SERVICES THEN PORT_SERVICES[port] ELSE "Unknown"

IsOpen(t) == t.open

\* a finding that is dropped when the lookup failed
FindingNeedsGeo(ip, t, g) ==
    IF g.ok
    THEN [ip |-> ip, port |-> t.port, protocol |-> "tcp",
          service |-> serviceName(t.port), banner |-> slice(t.banner, 500),
          risk_score |-> computeRiskScore(t.port, t.banner)] @@ GeoRecord
    ELSE [ip |-> ip, port |-> 0, protocol |-> "tcp", service |-> "Unknown",
          banner |-> <<>>, risk_score |-> 0]

\* a finding whose risk is scored on the banner it stores
FindingScoresStored(ip, t, g) ==
    LET core == [ip |-> ip, port |-> t.port, protocol |-> "tcp",
                 service |-> serviceName(t.port),
                 banner |-> slice(t.banner, 500),
                 risk_score |-> computeRiskScore(t.port,
                                                 slice(t.banner, 500))]
    IN IF g.ok THEN core @@ GeoRecord ELSE core

\* the object pushed to results for an open port
HostFinding(ip, t, g) ==
    LET core == [ip |-> ip, port |-> t.port, protocol |-> "tcp",
                 service |-> serviceName(t.port),
                 banner |-> slice(t.banner, 500),
                 risk_score |-> computeRiskScore(t.port, t.banner)]
    IN IF g.ok THEN core @@ GeoRecord ELSE core

\* a closed port logged as the open ones are
PortLineOpen(ip, t) == ScanLine("[v]", "OPEN", ip, t.port)

\* the log line of one port result
PortLine(ip, t) ==
    IF t.open THEN ScanLine("[v]", "OPEN", ip, t.port)
    ELSE ScanLine("[-]", "closed", ip, t.port)

\* Collect as soon as the lookup is done, without the port probes
CollectEarly ==
    /\ spc = "wait"
    /\ geo.state = "done"
    /\ LET ip == validIPs[idx]
           opened == SelectSeq(tasks, IsOpen)
       IN /\ scanSteps' = scanSteps
                \o Opt(geo.ok, ScanLine("[v]", "Geolocation", ip, 0))
                \o [k \in 1..Len(tasks) |-> PortLine(ip, tasks[k])]
          /\ results' = results
                \o [i \in 1..Len(opened) |-> HostFinding(ip, opened[i], geo)]
          /\ scored' = scored \cup
                {[port |-> opened[i].port, banner |-> opened[i].banner,
                  score |-> computeRiskScore(opened[i].port,
                                             opened[i].banner)] :
                    i \in 1..Len(opened)}
    /\ idx' = idx + 1
    /\ tasks' = <<>>
    /\ geo' = NoGeo
    /\ spc' = "loop"
    /\ UNCHANGED <<sreq, net, ips, validIPs, scanPorts, scanStatus, probed,
                   looked, inserted>>
    /\ UNCHANGED <<backend, client>>

\* Collect with the geolocation line after the port lines
CollectGeoLast ==
    /\ spc = "wait"
    /\ geo.state = "done"
    /\ \A k \in 1..Len(tasks) : tasks[k].phase = "done"
    /\ LET ip == validIPs[idx]
           opened == SelectSeq(tasks, IsOpen)
       IN /\ scanSteps' = scanSteps
                \o [k \in 1..Len(tasks) |-> PortLine(ip, tasks[k])]
                \o Opt(geo.ok, ScanLine("[v]", "Geolocation", ip, 0))
          /\ results' = results
                \o [i \in 1..Len(opened) |-> HostFinding(ip, opened[i], geo)]
          /\ scored' = scored \cup
                {[port |-> opened[i].port, banner |-> opened[i].banner,
                  score |-> computeRiskScore(opened[i].port,
                                             opened[i].banner)] :
                    i \in 1..Len(opened)}
    /\ idx' = idx + 1
    /\ tasks' = <<>>
    /\ geo' = NoGeo
    /\ spc' = "loop"
    /\ UNCHANGED <<sreq, net, ips, validIPs, scanPorts, scanStatus, probed,
                   looked, inserted>>
    /\ UNCHANGED <<backend, client>>

\* Promise.all has resolved: the geolocation line, then every port result
\* in the order of scanPorts
Collect ==
    /\ spc = "wait"
    /\ geo.state = "done"
    /\ \A k \in 1..Len(tasks) : tasks[k].phase = "done"
    /\ LET ip == validIPs[idx]
           opened == SelectSeq(tasks, IsOpen)
       IN /\ scanSteps' = scanSteps
                \o Opt(geo.ok, ScanLine("[v]", "Geolocation", ip, 0))
                \o [k \in 1..Len(tasks) |-> PortLine(ip, tasks[k])]
          /\ results' = results
                \o [i \in 1..Len(opened) |-> HostFinding(ip, opened[i], geo)]
          /\ scored' = scored \cup
                {[port |-> opened[i].port, banner |-> opened[i].banner,
                  score |-> computeRiskScore(opened[i].port,
                                             opened[i].banner)] :
                    i \in 1..Len(opened)}
    /\ idx' = idx + 1
    /\ tasks' = <<>>
    /\ geo' = NoGeo
    /\ spc' = "loop"
    /\ UNCHANGED <<sreq, net, ips, validIPs, scanPorts, scanStatus, probed,
                   looked, inserted>>
    /\ UNCHANGED <<backend, client>>

\* after the last address: the completion line, the insert of the findings
\* when there are any, the 200 response
ScanFinish(db) ==
    /\ spc = "loop"
    /\ idx > Len(validIPs)
    /\ scanSteps' = scanSteps
            \o <<Note("[v]", "Scan complete")>>
            \o Opt(results # <<>> /\ db = "error",
                   Note("[!]", "Database storage error"))
            \o Opt(results # <<>> /\ db = "ok",
                   Note("[v]", "results indexed in database"))
    /\ inserted' = inserted \o Opt(results # <<>>, results)
    /\ scanStatus' = 200
    /\ spc' = "done"
    /\ UNCHANGED <<sreq, net, ips, validIPs, scanPorts, idx, tasks, geo,
                   results, probed, looked, scored>>
    /\ UNCHANGED <<backend, client>>

ScanNext ==
    \/ \E r \in ScanRequests, w \in Nets : ScanRequest(r, w)
    \/ ServeBadBody
    \/ ServeNoRange
    \/ ServeNoPublic
    \/ ServeScan
    \/ ScanIP
    \/ \E k \in 1..6 : ConnectSettles(k)
    \/ \E k \in 1..6 : ReadSettles(k)
    \/ \E k \in 1..6 : ReadTimeout(k)
    \/ GeoSettles
    \/ Collect
    \/ \E db \in {"ok", "error"} : ScanFinish(db)

SpecScan == Init /\ [][ScanNext]_<<vars, scan>>

----------------------------------------------------------------------------
(* Claims about the port scanner *)

\* a piece that is a decimal numeral of a value in 0..255
Octet(t) ==
    /\ t # <<>>
    /\ \A i \in 1..Len(t) : IsDigit(t[i])
    /\ Decimal(t) <= 255

\* four octets outside 10/8, 172.16/12, 192.168/16, 127/8, first octet
\* neither 0 nor 224 and above
RoutablePublic(ip) ==
    /\ Len(ip) = 4
    /\ \A i \in 1..4 : Octet(ip[i])
    /\ LET a == Decimal(ip[1])
           b == Decimal(ip[2])
       IN /\ a # 10
          /\ ~(a = 172 /\ b >= 16 /\ b <= 31)
          /\ ~(a = 192 /\ b = 168)
          /\ a # 127
          /\ a # 0
          /\ a < 224

\* C11: isPublicIP accepts exactly the strings of four numeric octets in
\* [0,255] outside the private, loopback, zero and multicast blocks, and
\* rejects every other string, one with an empty octet included
C11_PublicExactly == validIPs = SelectSeq(ips, RoutablePublic)

\* C12: no TCP probe and no geolocation lookup is issued for an address
\* that fails the public-IP predicate
C12_OnlyPublicContacted ==
    /\ \A pr \in probed : RoutablePublic(pr[1])
    /\ \A ip \in looked : RoutablePublic(ip)

\* C13: expandIPRange returns at most 16 addresses whatever the width of
\* the requested range
C13_AtMost16 == Len(ips) <= 16

\* a range of 27 addresses was cut to its first 16
C13_Witness ==
    /\ sreq.ip_range = Str(<<IP(8, 8, 8, 250), IP(8, 8, 9, 20)>>)
    /\ Len(ips) = 16
    /\ ips[1] = IP(8, 8, 8, 250)
    /\ ips[16] = IP(8, 8, 9, 9)

\* an endpoint of a range has a piece that Number parses to NaN
NonNumericEndpoint(input) ==
    \E e \in 1..2 : \E i \in 1..Len(input[e]) : Number(input[e][i]).nan

\* C14: expandIPRange returns the empty sequence whenever parsing either
\* endpoint of the input yields a non-numeric octet
C14_EmptyOnNonNumeric ==
    (/\ sreq.ip_range.type = "string"
     /\ Len(sreq.ip_range.s) >= 2
     /\ NonNumericEndpoint(sreq.ip_range.s))
        => ips = <<>>

\* C15 as stated: either every address of the expanded batch is public or
\* the handler rejects the batch and scans none of it
C15_AllOrNone ==
    \/ \A i \in 1..Len(ips) : isPublicIP(ips[i])
    \/ /\ probed = {}
       /\ looked = {}
       /\ spc = "done" => scanStatus = 400

\* C15, amended: the handler contacts exactly the addresses of the batch
\* that pass isPublicIP, and rejects the batch only when none passes
C15_PublicSubsetScanned ==
    /\ \A pr \in probed : pr[1] \in Range(ips) /\ isPublicIP(pr[1])
    /\ looked \subseteq {ip \in Range(ips) : isPublicIP(ip)}
    /\ (spc = "done" /\ scanStatus = 200)
          => looked = {ip \in Range(ips) : isPublicIP(ip)}
    /\ (spc = "done" /\ sreq.json /\ ~NoRange(sreq.ip_range))
          => (scanStatus = 400 <=> \A i \in 1..Len(ips) : ~isPublicIP(ips[i]))

\* a batch of two public and two private addresses: the public two were
\* scanned
C15_Witness ==
    /\ spc = "done" /\ scanStatus = 200
    /\ sreq.ip_range = Str(<<IP(9, 255, 255, 254), IP(10, 0, 0, 1)>>)
    /\ Len(ips) = 4
    /\ looked = {IP(9, 255, 255, 254), IP(9, 255, 255, 255)}

Ind(c) == IF c THEN 1 ELSE 0

\* the lowercased banner contains one of the words
Mentions(b, words) ==
    \E i \in 1..Len(b) : LowerOf(b[i].w) \in words

RiskFormula(port, b) ==
    LET sum == 40 * Ind(port \in {21, 22, 23, 25, 3306, 5432, 6379, 27017,
                                  3389, 445, 1433})
             + 20 * Ind(Mentions(b, {"default", "admin", "root", "test",
                                     "welcome", "unauthorized"}))
             + 25 * Ind(port \in {3306, 5432, 27017, 6379})
             + 15 * Ind(Mentions(b, {"version", "server:"}))
    IN IF sum > 100 THEN 100 ELSE sum

\* C16: every value of computeRiskScore is an integer in [0,100], equals
\* min(100, 40*[sensitive port] + 20*[default keyword] + 25*[database
\* port] + 15*[version or server: in the banner]), and is the same for the
\* same port and banner
C16_RiskScore ==
    \A c \in scored :
        /\ c.score \in 0..100
        /\ c.score = RiskFormula(c.port, c.banner)
        /\ \A d \in scored :
              (d.port = c.port /\ d.banner = c.banner) => d.score = c.score

\* MySQL was scored with a banner that brings all four terms, SSH with
\* one that brings the first two
C16_Witness ==
    /\ [port |-> 3306, banner |-> BannerMysql, score |-> 100] \in scored
    /\ [port |-> 22, banner |-> BannerSsh, score |-> 60] \in scored

\* the addresses whose results were collected
Processed == IF idx = 0 THEN 0 ELSE idx - 1

OpenAt(port) == Behaviour(port).k \notin {"refused", "hang"}

\* what the probe of a port decides about a finding
ExpectedCore(ip, port) ==
    [ip |-> ip, port |-> port, service |-> serviceName(port),
     banner |-> slice(Behaviour(port).b, 500),
     risk_score |-> computeRiskScore(port, Behaviour(port).b)]

RECURSIVE ExpectedFor(_, _)
ExpectedFor(ip, k) ==
    IF k > Len(scanPorts) THEN <<>>
    ELSE Opt(OpenAt(scanPorts[k]), ExpectedCore(ip, scanPorts[k]))
         \o ExpectedFor(ip, k + 1)

RECURSIVE ExpectedUpTo(_)
ExpectedUpTo(n) ==
    IF n = 0 THEN <<>>
    ELSE ExpectedUpTo(n - 1) \o ExpectedFor(validIPs[n], 1)

Core(f) ==
    [ip |-> f.ip, port |-> f.port, service |-> f.service,
     banner |-> f.banner, risk_score |-> f.risk_score]

\* C17: a geolocation failure never fails the scan and never suppresses a
\* finding: ip, port, service, banner and risk_score of the findings are
\* decided by the probe outcomes alone, and a finding lacks the geo fields
\* exactly when the lookup failed
C17_GeoFailureContained ==
    /\ [i \in 1..Len(results) |-> Core(results[i])] = ExpectedUpTo(Processed)
    /\ \A i \in 1..Len(results) :
          ("country" \in DOMAIN results[i]) <=> (net.geo = "ok")
    /\ (spc = "done" /\ validIPs # <<>>) => scanStatus = 200

\* a finished scan with findings whose lookups all failed
C17_Witness ==
    /\ spc = "done" /\ scanStatus = 200
    /\ net.geo # "ok"
    /\ Len(results) >= 2
    /\ \A i \in 1..Len(results) : "country" \notin DOMAIN results[i]

ProbesOf(port) == {k \in 1..Len(scanPorts) : scanPorts[k] = port}
FindingsAt(ip, port) ==
    {i \in 1..Len(results) : results[i].ip = ip /\ results[i].port = port}
LinesAt(ip, port) ==
    {i \in 1..Len(scanSteps) :
        scanSteps[i].ip = ip /\ scanSteps[i].port = port}

GoogleDns == ScanBody(Str(<<IP(8, 8, 8, 8)>>), List(<<53, 80, 443>>))

Malformed(b) ==
    \/ ~b.json
    \/ NoRange(b.ip_range)
    \/ ~b.ports.array /\ b.ports.given

\* C19: a missing or malformed input is answered with an error and a
\* non-2xx status, and no probe, lookup or insert is attempted for it
C19_MalformedRejected ==
    (spc # "idle" /\ Malformed(sreq)) =>
        /\ probed = {}
        /\ looked = {}
        /\ inserted = <<>>
        /\ spc = "done" => ~IsOk(scanStatus)

Prefixes == {"[*]", "[+]", "[v]", "[!]", "[-]"}

\* C20: every line of the step log of the crawl engine and of the
\* port-scan engine begins with one of the five prefixes
C20_FivePrefixes ==
    /\ \A i \in 1..Len(steps) : steps[i].p \in Prefixes
    /\ \A i \in 1..Len(scanSteps) : scanSteps[i].p \in Prefixes

----------------------------------------------------------------------------
(* Further claims about the crawl *)

\* the host is the base domain or a name below it
SharesBaseDomain(h) ==
    LET d == StripWww(baseOrigin.host)
    IN h = d \/ EndsWith(h, <<".">> \o d)

\* C21: no link is in both the internal and the external set, and a host
\* is in the subdomain set only if a link to it was classified external
\* and the host shares the base registrable domain, not merely its last
\* characters
C21_Classification ==
    /\ internalLinks \cap externalLinks = {}
    /\ \A o \in subdomains :
          /\ \E e \in externalLinks : Origin(e) = o
          /\ SharesBaseDomain(o.host)

\* C23: the frontier never holds two items with the same URL
C23_EnqueuedOnce ==
    \A i, j \in 1..Len(queue) : queue[i].url = queue[j].url => i = j

\* the last page of the list
LastPage(pages) == pages[Len(pages)]

\* C26: every fetched item whose URL contains "/api/" gets a page record
\* with the API endpoint finding, whatever the content type of the
\* response
C26_ApiFinding ==
    [][(/\ pc = "fetch" /\ pc' = "loop"
        /\ UrlNamesApi(item.url)
        /\ steps'[Len(steps')].m # "Error fetching")
          => /\ Len(crawledPages') = Len(crawledPages) + 1
             /\ LastPage(crawledPages').url = item.url
             /\ \E k \in 1..Len(LastPage(crawledPages').attack_surface) :
                   LastPage(crawledPages').attack_surface[k].f
                      = "API endpoint"]_vars

\* the handler is between the receipt of the request and its response
Serving == pc \in {"recv", "robots", "loop", "fetch"}

\* a step of the handler
HandlerStep ==
    \/ ServeNoUrl \/ ServeBadUrl \/ ServeStart
    \/ \E o \in RobotsOutcomes : RobotsDone(o)
    \/ LoopSkip \/ LoopVisit \/ LoopExit
    \/ \E r \in Responses : FetchHtml(r) \/ FetchNonHtml(r) \/ FetchFails(r)

\* (pages still allowed, a fetch pending, frontier length) gets smaller in
\* the lexicographic order
Less(a1, b1, c1, a2, b2, c2) ==
    \/ a1 < a2
    \/ a1 = a2 /\ b1 < b2
    \/ a1 = a2 /\ b1 = b2 /\ c1 < c2

Pending(p) == IF p = "fetch" THEN 1 ELSE 0

\* C28: on every site graph and under every fetch outcome the BFS loop
\* ends and the handler answers after at most maxPages page fetches: the
\* handler can always take a step, every step of the loop decreases a
\* bounded measure or ends the loop, the fetches never exceed the cap, and
\* the end of the loop carries a response
C28_LoopTerminates ==
    /\ [](Serving => ENABLED HandlerStep)
    /\ [](pc \in {"loop", "fetch"} => Cardinality(visited) <= limit)
    /\ [](Cardinality(LinesOf("Visiting")) <= limit)
    /\ [](req.maxPages >= 1 =>
             Cardinality(LinesOf("Visiting")) <= req.maxPages)
    /\ [](pc = "done" => status # 0)
    /\ [][(pc \in {"loop", "fetch"} /\ backend' # backend)
            => \/ pc' = "done"
               \/ Less(limit' - Cardinality(visited'), Pending(pc'),
                       Len(queue'),
                       limit - Cardinality(visited), Pending(pc),
                       Len(queue))]_vars

\* a crawl of a site whose pages link back to the root ended at the cap
C28_Witness ==
    /\ pc = "done" /\ status = 200
    /\ req.maxPages = 2
    /\ Cardinality(LinesOf("Visiting")) = 2
    /\ Root \in internalLinks
    /\ queue # <<>>

\* C29: every page request of the crawl loop targets a URL of the base
\* origin; external links and discovered subdomains are recorded but never
\* enqueued and never fetched
C29_SameOriginOnly ==
    /\ pc = "fetch" => Origin(item.url) = baseOrigin
    /\ \A u \in visited : Origin(u) = baseOrigin
    /\ \A i \in 1..Len(queue) : Origin(queue[i].url) = baseOrigin
    /\ \A e \in externalLinks :
          /\ Origin(e) # baseOrigin
          /\ \A u \in visited : Origin(u) # Origin(e)
          /\ \A i \in 1..Len(queue) : Origin(queue[i].url) # Origin(e)
    /\ \A o \in subdomains :
          /\ \A u \in visited : Origin(u) # o
          /\ \A i \in 1..Len(queue) : Origin(queue[i].url) # o

\* a finished crawl that recorded external links and a subdomain
C29_Witness ==
    /\ pc = "done" /\ status = 200
    /\ OtherLink \in externalLinks
    /\ PlainLink \in externalLinks
    /\ Origin(SubLink) \in subdomains
    /\ Cardinality(visited) >= 1

----------------------------------------------------------------------------
(* Further claims about the port scanner *)

\* a step the scan takes while it waits on the probes and the lookup of an
\* address: a promise settles, a timer of the code fires, the barrier opens
ScanProgress ==
    \/ \E k \in 1..Len(tasks) :
          ConnectSettles(k) \/ ReadSettles(k) \/ ReadTimeout(k)
    \/ GeoSettles
    \/ Collect

\* C22: every network operation of the scanner has a hard timeout, so no
\* remote endpoint that never answers can block the scan: while the scan
\* waits on an address it can always take a step
C22_NeverBlocked == spc = "wait" => ENABLED ScanProgress

InFlight == {k \in 1..Len(tasks) : tasks[k].phase # "done"}
Scannings == {i \in 1..Len(scanSteps) : scanSteps[i].m = "Scanning"}

\* C24: the lookup and all probes of an address start together, nothing
\* of the next address starts before all of them have completed, at most
\* |ports| probes and one lookup are in flight, and at most 16 * |ports|
\* probes are issued
C24_Barrier ==
    /\ [](/\ Cardinality(InFlight) <= Len(scanPorts)
          /\ \A k \in InFlight : <<validIPs[idx], tasks[k].port>> \in probed
          /\ geo.state = "pending" => spc = "wait"
          /\ spc # "wait" => InFlight = {})
    /\ [](/\ Cardinality(Scannings) <= 16
          /\ Cardinality(probed)
                <= Cardinality(Scannings) * Len(scanPorts)
          /\ Cardinality(looked) <= Cardinality(Scannings))
    /\ [][(probed' # probed \/ looked' # looked)
            => /\ InFlight = {} /\ geo.state # "pending"
               /\ Len(tasks') = Len(scanPorts)
               /\ \A k \in 1..Len(tasks') :
                     /\ tasks'[k].phase = "connect"
                     /\ tasks'[k].port = scanPorts[k]
               /\ geo'.state = "pending"
               /\ looked' = looked \cup {validIPs[idx]}]_<<vars, scan>>
    /\ [][(idx' # idx /\ idx >= 1)
            => InFlight = {} /\ geo.state = "done"]_<<vars, scan>>

\* the three probes and the lookup of the second address are in flight,
\* after the first address was collected
C24_Witness ==
    /\ spc = "wait" /\ idx = 2
    /\ Len(tasks) = 3
    /\ \A k \in 1..3 : tasks[k].phase = "connect"
    /\ geo.state = "pending"
    /\ Cardinality(probed) = 6

\* both endpoints are dotted quads of octets, or the end is one octet
WellFormedRange(input) ==
    /\ Len(input) = 2
    /\ Len(input[1]) = 4
    /\ \A i \in 1..4 : Octet(input[1][i])
    /\ \/ Len(input[2]) = 4 /\ \A i \in 1..4 : Octet(input[2][i])
       \/ Len(input[2]) = 1 /\ Octet(input[2][1])

StartOf(input) == [i \in 1..4 |-> Decimal(input[1][i])]
EndOf(input) ==
    IF Len(input[2]) = 4 THEN [i \in 1..4 |-> Decimal(input[2][i])]
    ELSE [StartOf(input) EXCEPT ![4] = Decimal(input[2][1])]

\* the first n addresses from a to e, as unsigned 32-bit values
RECURSIVE Consecutive(_, _, _)
Consecutive(a, e, n) ==
    IF n = 0 \/ ~Leq(a, e) THEN <<>>
    ELSE <<IP(a[1], a[2], a[3], a[4])>> \o Consecutive(Inc(a), e, n - 1)

\* C25: for a range whose start is not above its end as unsigned 32-bit
\* values, expandIPRange returns the consecutive addresses from start to
\* end in ascending order, cut to the first 16, also with a first octet of
\* 128 or more and across 127.255.255.255 / 128.0.0.0
C25_ConsecutiveRange ==
    (/\ spc \notin {"idle", "recv"}
     /\ sreq.ip_range.type = "string"
     /\ WellFormedRange(sreq.ip_range.s)
     /\ Leq(StartOf(sreq.ip_range.s), EndOf(sreq.ip_range.s)))
        => ips = Consecutive(StartOf(sreq.ip_range.s),
                             EndOf(sreq.ip_range.s), maxIPs)

Header == << Note("[*]", "Scan session initialized"),
             Note("[*]", "Target IPs"), Note("[*]", "Ports") >>

\* the lines of one address: its start, the geolocation line when the
\* lookup succeeded, one line per requested port in the order of the list
ExpectedLines(ip) ==
    <<ScanLine("[+]", "Scanning", ip, 0)>>
    \o Opt(net.geo = "ok", ScanLine("[v]", "Geolocation", ip, 0))
    \o [k \in 1..Len(scanPorts) |->
          IF OpenAt(scanPorts[k])
          THEN ScanLine("[v]", "OPEN", ip, scanPorts[k])
          ELSE ScanLine("[-]", "closed", ip, scanPorts[k])]

RECURSIVE ExpectedLog(_)
ExpectedLog(n) ==
    IF n = 0 THEN <<>>
    ELSE ExpectedLog(n - 1) \o ExpectedLines(validIPs[n])

\* C27: the results and the step log do not depend on the order in which
\* the probes and the lookup of an address complete: they are grouped by
\* address in the order of the filtered list and, within an address, follow
\* the requested port list, the geolocation line before the port lines
C27_OrderIndependent ==
    LET log == Header \o ExpectedLog(Processed)
        found == ExpectedUpTo(Processed)
    IN /\ spc = "loop" => scanSteps = log
       /\ spc = "wait" =>
             scanSteps = Append(log, ScanLine("[+]", "Scanning",
                                              validIPs[idx], 0))
       /\ (spc = "done" /\ scanStatus = 200) =>
             /\ Len(scanSteps) > Len(log)
             /\ SubSeq(scanSteps, 1, Len(log)) = log
             /\ scanSteps[Len(log) + 1] = Note("[v]", "Scan complete")
       /\ [i \in 1..Len(results) |-> <<results[i].ip, results[i].port>>]
             = [i \in 1..Len(found) |-> <<found[i].ip, found[i].port>>]

\* the last probe of the second address has completed before the first
\* one and before the lookup, after the first address gave findings
C27_Witness ==
    /\ spc = "wait" /\ idx = 2
    /\ Len(tasks) = 3
    /\ tasks[1].phase = "connect" /\ tasks[3].phase = "done"
    /\ geo.state = "pending"
    /\ results # <<>>

\* C30 as stated: the risk_score of every finding is computeRiskScore of
\* its port and of the banner the finding stores
C30_ScoreOfStoredBanner ==
    \A i \in 1..Len(results) :
        results[i].risk_score
           = computeRiskScore(results[i].port, results[i].banner)

\* C30, amended: the risk_score of a finding is computeRiskScore of its
\* port and of the banner as the probe read it; the finding stores the
\* first 500 characters of that banner, so the score is the score of the
\* stored banner when the banner read has at most 500 characters
C30_ScoreOfReadBanner ==
    \A i \in 1..Len(results) :
        LET read == Behaviour(results[i].port).b
        IN /\ results[i].risk_score
                 = computeRiskScore(results[i].port, read)
           /\ results[i].banner = slice(read, 500)
           /\ slice(read, 500) = read =>
                 results[i].risk_score
                    = computeRiskScore(results[i].port, results[i].banner)

\* a finding of port 22 whose banner lost its last word to the cut: scored
\* 60 on the banner read, 40 on the banner stored
C30_Witness ==
    \E i \in 1..Len(results) :
        /\ results[i].port = 22
        /\ results[i].risk_score = 60
        /\ results[i].banner # Behaviour(22).b
        /\ computeRiskScore(22, results[i].banner) = 40

====
